---- MODULE Spec2Model ----
(***************************************************************************)
(* Model of the authenticated API gateway client of the movie              *)
(* recommendation front end (src/utils/api.ts) and of the pages that call  *)
(* its movie lookup.                                                       *)
(*                                                                         *)
(* Every logical request r walks through the suspension points of the      *)
(* code: the request interceptor awaits supabase.auth.getSession(), the    *)
(* request is sent, the response interceptor awaits                        *)
(* supabase.auth.refreshSession() on a 401 and re-sends the descriptor     *)
(* with the bare axios client.  Requests of different r interleave at      *)
(* those points, as promises do on the event loop.                         *)
(***************************************************************************)
EXTENDS Integers, Sequences, FiniteSets, TLC

VARIABLES req, session, hasWindow, href, call, provider, list, details

vars == <<req, session, hasWindow, href, call, provider, list, details>>

(* ---------------------------------------------------------------------- *)
(* Bounds                                                                  *)
(* ---------------------------------------------------------------------- *)

\* number of logical requests that may be in progress at the same time
NumReqs == 2

\* longest list a backend payload carries
MaxList == 2

\* most checkAuthStatus calls suspended at the same time
MaxChecks == 2

\* last page of the movies list that is loaded
MaxPage == 3

\* most getMovies calls the movies list starts
MaxFetches == 3

\* most createInteraction calls the details page makes
MaxInteractions == 2

Reqs == 1..NumReqs

(* ---------------------------------------------------------------------- *)
(* Values of the program                                                   *)
(* ---------------------------------------------------------------------- *)

\* error.response is undefined: no response was received
NoResponse == 0

\* HTTP outcomes the backend (or the network) can produce for one send
Statuses == {200, 401, 403, 404, 500, NoResponse}

IsSuccess(st) == st >= 200 /\ st < 300

\* what supabase.auth.getSession() can hold: no session, a session whose
\* access_token is empty, a session with a token
NoSession == "none"

InitialSessions == {NoSession, "", "t1"}

\* the access token a successful refreshSession() hands out
RefreshedToken == "t2"

NoHeader == "none"

Bearer(tok) == "Bearer " \o tok

\* a non-empty bearer Authorization header
IsBearer(h) == h # NoHeader /\ h # Bearer("")

LoginRoute == "/login"

StartRoute == "/"

(* ---------------------------------------------------------------------- *)
(* Movie identifiers                                                       *)
(* ---------------------------------------------------------------------- *)

HexChars == {"0", "1", "2", "3", "4", "5", "6", "7", "8", "9",
             "a", "b", "c", "d", "e", "f", "A", "B", "C", "D", "E", "F"}

ObjectIdLength == 24

\* /^[0-9a-fA-F]{24}$/.test(id), with the !id early return
isValidObjectId(id) ==
    IF Len(id) = 0 THEN FALSE
    ELSE Len(id) = ObjectIdLength /\ \A i \in 1..Len(id) : id[i] \in HexChars

Rep(c, n) == [i \in 1..n |-> c]

WellFormedId ==
    <<"5", "0", "7", "f", "1", "f", "7", "7", "b", "c", "f", "8",
      "6", "c", "d", "7", "9", "9", "4", "3", "9", "0", "1", "1">>

\* identifiers a route parameter can carry: well formed, a non-hex
\* character, one character short, one character long
SampleIds == {WellFormedId, Rep("g", ObjectIdLength),
              Rep("a", ObjectIdLength - 1), Rep("F", ObjectIdLength + 1)}

NoId == <<>>

(* ---------------------------------------------------------------------- *)
(* State                                                                   *)
(* ---------------------------------------------------------------------- *)

\* req[r]     the logical request r:
\*   pc       idle, lookup (request interceptor awaits getSession), ready
\*            (interceptor returned the config), sent (on the wire),
\*            refreshing (response interceptor awaits refreshSession),
\*            refreshed (refresh succeeded, descriptor re-headed), done
\*   op, id   the operation and, for a movie lookup, the identifier
\*   via      the client the request is on: "api" (the instance with the
\*            interceptors) or "axios" (the bare client)
\*   auth     the Authorization header of the request descriptor
\*   mark     the _retry property of the request descriptor
\*   cfg      error.config and error.config.headers are present
\*   look     what the getSession lookup of the request interceptor gave
\*   refresh  what refreshSession gave
\*   sts      the statuses received so far, one per send
\*   sends, refreshes, retries   counters of sends, refreshSession calls
\*            and re-sends made by the response interceptor
\*   outcome  pending, resolved, rejected, invalid (refused before any call)
\*   res      <<"data", n>>: the body of the n-th response;
\*            <<"error", n>>: the error of the n-th response
\*   nav      this request's handling assigned window.location.href
\*   trace    the order of the steps taken for this request
\* session    the session the auth provider currently holds
\* hasWindow  typeof window !== 'undefined' (browser, not server rendering)
\* href       window.location.href
\* call       one call of an exported operation of api.ts, seen from its
\*            caller: the operation, what the gateway gave it, and what it
\*            returned or threw
\* provider   the state of the AuthProvider component
\* list       the state of the movies list page
\* details    the state of the movie details page

NoResult == <<"none", 0>>

(* ---------------------------------------------------------------------- *)
(* Response bodies and errors seen by the exported operations              *)
(* ---------------------------------------------------------------------- *)

Movies == {"m1", "m2"}

Lists == UNION {[1..n -> Movies] : n \in 0..MaxList}

\* the value of one property of a response body: not there, an array, or
\* something that is not an array
Absent == [tag |-> "absent", items |-> <<>>]

NotArray == [tag |-> "other", items |-> <<>>]

ArrayOf(l) == [tag |-> "list", items |-> l]

FieldValues == {Absent, NotArray} \cup {ArrayOf(l) : l \in Lists}

\* response.data: an array, an object with some of the properties
\* similar_items, movies, recommendations, null, a truthy scalar, a falsy
\* scalar
Body(k, l, a, b, c) ==
    [kind |-> k, items |-> l, similar_items |-> a, movies |-> b,
     recommendations |-> c]

ListBody(l) == Body("list", l, Absent, Absent, Absent)

NullBody == Body("null", <<>>, Absent, Absent, Absent)

ObjectBodies == {Body("object", <<>>, a, b, c) : a, b, c \in FieldValues}

Bodies ==
    {ListBody(l) : l \in Lists} \cup ObjectBodies
    \cup {NullBody, Body("scalar", <<>>, Absent, Absent, Absent),
          Body("falsy", <<>>, Absent, Absent, Absent)}

\* error.response?.data?.detail: not there, empty, a text
NoDetail == "<absent>"

Details == {NoDetail, "", "Custom detail"}

ErrorStatuses == {400, 401, 403, 404, 418, 500, 503}

\* the error the gateway rejects with: an axios error with a response, or
\* one without (nothing was received)
ResponseError(st, d) == [status |-> st, detail |-> d]

NetworkError == ResponseError(NoResponse, NoDetail)

GatewayErrors ==
    {ResponseError(st, d) : st \in ErrorStatuses, d \in Details}
    \cup {NetworkError}

NoError == ResponseError(200, NoDetail)

\* look    what verifyAuth's own getSession lookup gave
\* authed  the isAuthenticated property of what verifyAuth returned
IdleCall ==
    [phase |-> "idle", op |-> "none", body |-> NullBody, err |-> NoError,
     ret |-> NullBody, msg |-> "", look |-> "pending", authed |-> FALSE]

\* AuthProvider after its first render: the useState initial values, no
\* effect has run yet
\*   user     useUser() is not null
\*   checks   the checkAuthStatus calls suspended in await verifyAuth(),
\*            each at "lookup" (verifyAuth awaits getSession) or "verify"
\*            (GET /auth/verify is on the wire)
\*   logout   logout() is suspended in await signOut()
IdleProvider ==
    [mounted |-> FALSE, user |-> FALSE, isAuthenticated |-> FALSE,
     isLoading |-> TRUE, error |-> FALSE, checks |-> <<>>,
     logout |-> FALSE, route |-> StartRoute]

\* the movies list page after its first render
\*   inflight  the pages the running fetchMovies closures were started for
\*   fetches   number of getMovies calls started
\*   retry     what the last press of 'Try Again' led to, retryAfter the
\*             error that was shown when it was pressed
IdleList ==
    [mounted |-> FALSE, page |-> 1, loading |-> TRUE, error |-> "none",
     hasMore |-> TRUE, movies |-> 0, inflight |-> <<>>, fetches |-> 0,
     retry |-> "none", retryAfter |-> "none"]

\* the movie details page after its first render
\*   pending   the createInteraction calls awaited by the handlers, each
\*             with its type and the flag value its closure saw
\*   sent      number of createInteraction calls made
\*   unguarded number of them made without a user or a valid movie id
\*   changed, succeeded   per type: assignments of the flag, calls that
\*             returned
IdleDetails ==
    [open |-> FALSE, user |-> FALSE, id |-> NoId, movie |-> FALSE,
     favorite |-> FALSE, watchlist |-> FALSE, rated |-> FALSE,
     pending |-> <<>>, sent |-> 0, unguarded |-> 0,
     changed |-> [k \in {"rate", "favorite", "watchlist"} |-> 0],
     succeeded |-> [k \in {"rate", "favorite", "watchlist"} |-> 0]]

IdleRequest ==
    [pc |-> "idle", op |-> "none", id |-> NoId, via |-> "none",
     auth |-> NoHeader, mark |-> FALSE, cfg |-> TRUE, look |-> "pending",
     refresh |-> "none", sts |-> <<>>, sends |-> 0, refreshes |-> 0,
     retries |-> 0, outcome |-> "pending", res |-> NoResult, nav |-> FALSE,
     trace |-> <<>>]

Init ==
    /\ req = [r \in Reqs |-> IdleRequest]
    /\ session \in InitialSessions
    /\ hasWindow \in BOOLEAN
    /\ href = StartRoute
    /\ call = IdleCall
    /\ provider = IdleProvider
    /\ list = IdleList
    /\ details = IdleDetails

Set(r, rec) ==
    /\ req' = [req EXCEPT ![r] = rec]
    /\ UNCHANGED <<call, provider, list, details>>

\* the promise settles without a value
ResolveUndefined(rec) ==
    [rec EXCEPT !.pc = "done", !.outcome = "resolved", !.res = NoResult]

\* the promise of the call settles
Resolve(rec) ==
    [rec EXCEPT !.pc = "done", !.outcome = "resolved",
                !.res = <<"data", Len(rec.sts)>>]

\* the failure is swallowed: the promise settles without a value
RejectSwallowed(rec) ==
    [rec EXCEPT !.pc = "done", !.outcome = "resolved", !.res = NoResult]

\* every rejection also sends the page to the login route
RejectWithRedirect(rec) ==
    [rec EXCEPT !.pc = "done", !.outcome = "rejected",
                !.res = <<"error", Len(rec.sts)>>, !.nav = hasWindow]

\* Promise.reject(error): error is the one the handler was called with
Reject(rec) ==
    [rec EXCEPT !.pc = "done", !.outcome = "rejected",
                !.res = <<"error", Len(rec.sts)>>]

(* ---------------------------------------------------------------------- *)
(* Request path                                                            *)
(* ---------------------------------------------------------------------- *)

\* session?.access_token is truthy
HasAccessToken(s) == s # NoSession /\ s # ""

\* the token is attached without its scheme
AttachCredentialRaw(res, s, header) ==
    IF res = "ok" /\ HasAccessToken(s) THEN s ELSE header

\* the request interceptor's treatment of the lookup result: attach the
\* bearer header when a token is there, leave the config alone otherwise
\* (also when getSession threw)
AttachCredential(res, s, header) ==
    IF res = "ok" /\ HasAccessToken(s) THEN Bearer(s) ELSE header

\* api.get / api.post: the request interceptor starts its session lookup
StartOnApi(rec) ==
    [rec EXCEPT !.pc = "lookup", !.via = "api",
                !.trace = Append(@, "lookupStart")]

\* axios(config) / axios.post: the bare client has no interceptors
StartOnAxios(rec) ==
    [rec EXCEPT !.pc = "sent", !.via = "axios", !.sends = @ + 1,
                !.trace = Append(@, "send")]

StartOn(client, rec) ==
    IF client = "api" THEN StartOnApi(rec) ELSE StartOnAxios(rec)

\* getMovie(id): no check of the identifier, the call goes to the gateway
getMovie(rec, id) == StartOnApi([rec EXCEPT !.op = "getMovie", !.id = id])

\* pages/movies/[id].tsx: the lookup runs for every non-empty route id
LoadMoviePage(r, id) ==
    /\ req[r].pc = "idle"
    /\ Len(id) > 0
    /\ Set(r, getMovie(req[r], id))
    /\ UNCHANGED <<session, hasWindow, href>>

\* the details page that validates: the lookup runs only for a valid id,
\* otherwise the page shows 'Invalid movie ID format' and calls nothing
LoadCheckedMoviePage(r, id) ==
    /\ req[r].pc = "idle"
    /\ IF isValidObjectId(id)
       THEN Set(r, getMovie(req[r], id))
       ELSE Set(r, [req[r] EXCEPT !.pc = "done", !.op = "getMovie",
                                  !.id = id, !.outcome = "invalid"])
    /\ UNCHANGED <<session, hasWindow, href>>

\* login / register: axios.post on the bare client
Login(r) ==
    /\ req[r].pc = "idle"
    /\ Set(r, StartOnAxios([req[r] EXCEPT !.op = "login"]))
    /\ UNCHANGED <<session, hasWindow, href>>

\* a call on the exported client itself, with the caller's own config
ApiRequest(r, m) ==
    /\ req[r].pc = "idle"
    /\ Set(r, StartOnApi([req[r] EXCEPT !.op = "request", !.mark = m]))
    /\ UNCHANGED <<session, hasWindow, href>>

GetSessionResults == {"ok", "throws"}

\* the interceptor without its try/catch: a throwing lookup fails the call
LookupDoneUnguarded(r, res) ==
    /\ req[r].pc = "lookup"
    /\ Set(r, IF res = "throws"
              THEN Reject([req[r] EXCEPT !.look = "throws"])
              ELSE [req[r] EXCEPT
                      !.pc = "ready",
                      !.look = session,
                      !.auth = AttachCredential(res, session, @),
                      !.trace = Append(@, "lookupDone")])
    /\ UNCHANGED <<session, hasWindow, href>>

\* the request interceptor resumes after await getSession()
LookupDone(r, res) ==
    /\ req[r].pc = "lookup"
    /\ Set(r, [req[r] EXCEPT
                 !.pc = "ready",
                 !.look = IF res = "ok" THEN session ELSE "throws",
                 !.auth = AttachCredential(res, session, @),
                 !.trace = Append(@, "lookupDone")])
    /\ UNCHANGED <<session, hasWindow, href>>

\* the request leaves without waiting for the interceptor
CanSendEarly(rec) == rec.pc \in {"lookup", "ready"}

\* the request leaves once the request interceptor has returned the config
CanSend(rec) == rec.pc = "ready"

Dispatch(r) ==
    /\ CanSend(req[r])
    /\ Set(r, [req[r] EXCEPT !.pc = "sent", !.sends = @ + 1,
                             !.trace = Append(@, "send")])
    /\ UNCHANGED <<session, hasWindow, href>>

(* ---------------------------------------------------------------------- *)
(* Response path                                                           *)
(* ---------------------------------------------------------------------- *)

\* the assignment without the typeof window guard
RedirectAlways(rec) == [rec EXCEPT !.nav = TRUE]

\* if (typeof window !== 'undefined') window.location.href = '/login'
Redirect(rec) == [rec EXCEPT !.nav = hasWindow]

HrefAfter(rec) == IF rec.nav THEN LoginRoute ELSE href

\* 403 is treated as an authentication failure too
OnResponseErrorAuthStatuses(rec, st) ==
    IF st \in {401, 403}
    THEN [rec EXCEPT !.pc = "refreshing", !.refresh = "pending",
                     !.refreshes = @ + 1,
                     !.trace = Append(@, "refreshStart")]
    ELSE Reject(rec)

\* the handler with a guard on the descriptor's _retry property
OnResponseErrorMarked(rec, st) ==
    IF st = 401 /\ ~rec.mark
    THEN [rec EXCEPT !.pc = "refreshing", !.refresh = "pending",
                     !.refreshes = @ + 1,
                     !.trace = Append(@, "refreshStart")]
    ELSE Reject(rec)

\* the error handler of the response interceptor up to its first await:
\* a 401 starts refreshSession, every other failure is rejected as it is
OnResponseError(rec, st) ==
    IF st = 401
    THEN [rec EXCEPT !.pc = "refreshing", !.refresh = "pending",
                     !.refreshes = @ + 1,
                     !.trace = Append(@, "refreshStart")]
    ELSE Reject(rec)

\* the bare client runs the response interceptor too
RespondAlwaysIntercepted(r, st, c) ==
    /\ req[r].pc = "sent"
    /\ c = TRUE \/ (st = 401 /\ req[r].via = "api")
    /\ LET got == [req[r] EXCEPT !.sts = Append(@, st), !.cfg = c]
       IN  Set(r, IF IsSuccess(st) THEN Resolve(got)
                  ELSE OnResponseError(got, st))
    /\ UNCHANGED <<session, hasWindow, href>>

\* a response (or none) arrives for the request on the wire; on the api
\* instance it passes the response interceptor, on bare axios it goes to
\* the awaiting code as it is
Respond(r, st, c) ==
    /\ req[r].pc = "sent"
    /\ c = TRUE \/ (st = 401 /\ req[r].via = "api")
    /\ LET got == [req[r] EXCEPT !.sts = Append(@, st), !.cfg = c]
       IN  Set(r, IF IsSuccess(st) THEN Resolve(got)
                  ELSE IF got.via = "api" THEN OnResponseError(got, st)
                  ELSE Reject(got))
    /\ UNCHANGED <<session, hasWindow, href>>

RefreshResults == {"ok", "error", "nosession", "throws"}

\* only refreshError is looked at, a missing session passes
RefreshFailedErrorOnly(res) == res \in {"error", "throws"}

\* refreshError || !data.session, or refreshSession threw
RefreshFailed(res) == res # "ok"

\* the re-send goes through the instance with the interceptors
RetryClientApi == "api"

\* the client the response interceptor re-sends the request with
RetryClient == "axios"

\* the descriptor is re-sent with the header it had
RefreshDoneStaleHeader(r, res) ==
    /\ req[r].pc = "refreshing"
    /\ LET got == [req[r] EXCEPT !.refresh = res,
                                 !.trace = Append(@, "refreshDone")]
           next == IF RefreshFailed(res) THEN Reject(Redirect(got))
                   ELSE IF got.cfg THEN [got EXCEPT !.pc = "refreshed"]
                   ELSE Reject(got)
       IN  /\ Set(r, next)
           /\ href' = HrefAfter(next)
    /\ session' = IF res = "ok" THEN RefreshedToken ELSE session
    /\ UNCHANGED hasWindow

\* a missing descriptor is treated as a failed refresh
RefreshDoneRedirectsWithoutDescriptor(r, res) ==
    /\ req[r].pc = "refreshing"
    /\ LET got == [req[r] EXCEPT !.refresh = res,
                                 !.trace = Append(@, "refreshDone")]
           next == IF RefreshFailed(res) THEN Reject(Redirect(got))
                   ELSE IF got.cfg
                        THEN [got EXCEPT !.pc = "refreshed",
                                         !.auth = Bearer(RefreshedToken)]
                        ELSE Reject(Redirect(got))
       IN  /\ Set(r, next)
           /\ href' = HrefAfter(next)
    /\ session' = IF res = "ok" THEN RefreshedToken ELSE session
    /\ UNCHANGED hasWindow

\* the error handler resumes after await refreshSession()
RefreshDone(r, res) ==
    /\ req[r].pc = "refreshing"
    /\ LET got == [req[r] EXCEPT !.refresh = res,
                                 !.trace = Append(@, "refreshDone")]
           next == IF RefreshFailed(res) THEN Reject(Redirect(got))
                   ELSE IF got.cfg
                        THEN [got EXCEPT !.pc = "refreshed",
                                         !.auth = Bearer(RefreshedToken)]
                        ELSE Reject(got)
       IN  /\ Set(r, next)
           /\ href' = HrefAfter(next)
    /\ session' = IF res = "ok" THEN RefreshedToken ELSE session
    /\ UNCHANGED hasWindow

\* the re-send does not wait for refreshSession
CanRetryEarly(rec) == rec.pc \in {"refreshing", "refreshed"}

\* the re-send happens once refreshSession has resolved with a session
CanRetry(rec) == rec.pc = "refreshed"

\* return axios(originalRequest)
RetryDispatch(r) ==
    /\ CanRetry(req[r])
    /\ Set(r, StartOn(RetryClient,
                      [req[r] EXCEPT !.retries = @ + 1,
                                     !.trace = Append(@, "retry")]))
    /\ UNCHANGED <<session, hasWindow, href>>

(* ---------------------------------------------------------------------- *)
(* Specification                                                           *)
(* ---------------------------------------------------------------------- *)

\* the steps of the interceptors and of the wire for request r
Progress(r) ==
    \/ \E res \in GetSessionResults : LookupDone(r, res)
    \/ Dispatch(r)
    \/ \E st \in Statuses, c \in BOOLEAN : Respond(r, st, c)
    \/ \E res \in RefreshResults : RefreshDone(r, res)
    \/ RetryDispatch(r)

\* requests are numbered in the order they are issued
InOrder(r) == IF r = 1 THEN TRUE ELSE req[r - 1].pc # "idle"

\* the gateway under concurrent calls: movie lookups for a well-formed
\* identifier and logins
Next ==
    \/ \E r \in Reqs : InOrder(r) /\ LoadMoviePage(r, WellFormedId)
    \/ \E r \in Reqs : InOrder(r) /\ Login(r)
    \/ \E r \in Reqs : Progress(r)

Spec == Init /\ [][Next]_vars

(* ---------------------------------------------------------------------- *)
(* Exported operations: what they return and throw                         *)
(* ---------------------------------------------------------------------- *)

\* the operations that call the gateway and return response.data untouched
PlainOps == {"getMovies", "getMovie", "searchMovies", "createInteraction",
             "getUserInteractions", "register", "login"}

\* the operations that extract a list from response.data
RecommendationOps == {"getUserRecommendations", "getPopularMovies"}

Operations == PlainOps \cup RecommendationOps \cup {"getSimilarMovies"}

\* the second argument each operation gives to handleApiError
DefaultMessage(op) ==
    CASE op = "getMovies" -> "Failed to fetch movies"
      [] op = "getMovie" -> "Failed to fetch movie details"
      [] op = "searchMovies" -> "Failed to search movies"
      [] op = "createInteraction" -> "Failed to record your interaction"
      [] op = "getUserInteractions" -> "Failed to fetch your activity history"
      [] op = "getUserRecommendations" -> "Failed to fetch recommendations"
      [] op = "getSimilarMovies" -> "Failed to fetch similar movies"
      [] op = "getPopularMovies" -> "Failed to fetch popular movies"
      [] op = "register" -> "Failed to register user"
      [] op = "login" -> "Failed to login"

\* the switch of handleApiError over error.response?.status
StatusMessage(st, defaultMessage) ==
    CASE st = 400 -> "Invalid request. Please check your data."
      [] st = 401 -> "Authentication required. Please log in."
      [] st = 403 -> "You don't have permission to access this resource."
      [] st = 404 -> "The requested resource was not found."
      [] st = 500 -> "Server error. Please try again later."
      [] OTHER -> defaultMessage

\* error.response?.data?.detail is truthy
HasDetail(e) == e.status # NoResponse /\ e.detail # NoDetail /\ e.detail # ""

\* the status is looked at before the detail
handleApiErrorStatusFirst(e, defaultMessage) ==
    IF StatusMessage(e.status, defaultMessage) # defaultMessage
    THEN StatusMessage(e.status, defaultMessage)
    ELSE IF HasDetail(e) THEN e.detail ELSE defaultMessage

\* handleApiError for an axios error: the detail of the response body when
\* it has one, else the message of the status, else the default message
handleApiError(e, defaultMessage) ==
    IF HasDetail(e) THEN e.detail
    ELSE StatusMessage(e.status, defaultMessage)

\* data && ... : null and falsy scalars stop the test
Truthy(b) == b.kind \in {"list", "object", "scalar"}

IsArray(v) == v.tag = "list"

\* the array is taken although it is the object that is returned
ExtractRecommendationsWhole(b) ==
    IF b.kind = "list" THEN b
    ELSE IF Truthy(b) /\ IsArray(b.recommendations) THEN b
    ELSE ListBody(<<>>)

\* getUserRecommendations / getPopularMovies after the await: the payload
\* itself when it is an array, else its recommendations array, else []
ExtractRecommendations(b) ==
    IF b.kind = "list" THEN b
    ELSE IF Truthy(b) /\ IsArray(b.recommendations)
         THEN ListBody(b.recommendations.items)
    ELSE ListBody(<<>>)

\* movies is looked at before similar_items
ExtractSimilarMoviesFirst(b) ==
    IF b.kind = "list" THEN b
    ELSE IF Truthy(b) /\ IsArray(b.movies) THEN ListBody(b.movies.items)
    ELSE IF Truthy(b) /\ IsArray(b.similar_items)
         THEN ListBody(b.similar_items.items)
    ELSE ListBody(<<>>)

\* getSimilarMovies after the await: the payload itself when it is an
\* array, else its similar_items array, else its movies array, else []
ExtractSimilar(b) ==
    IF b.kind = "list" THEN b
    ELSE IF Truthy(b) /\ IsArray(b.similar_items)
         THEN ListBody(b.similar_items.items)
    ELSE IF Truthy(b) /\ IsArray(b.movies) THEN ListBody(b.movies.items)
    ELSE ListBody(<<>>)

\* what the operation returns for the body the gateway resolved with
ReturnValue(op, b) ==
    IF op \in RecommendationOps THEN ExtractRecommendations(b)
    ELSE IF op = "getSimilarMovies" THEN ExtractSimilar(b)
    ELSE b

\* an exported operation is called and awaits the gateway
CallOperation(op) ==
    /\ call.phase = "idle"
    /\ call' = [call EXCEPT !.phase = "awaiting", !.op = op]
    /\ UNCHANGED <<req, session, hasWindow, href, provider, list, details>>

\* the gateway resolves: the operation returns
GatewayResolves(b) ==
    /\ call.phase = "awaiting"
    /\ call' = [call EXCEPT !.phase = "returned", !.body = b,
                            !.ret = ReturnValue(call.op, b)]
    /\ UNCHANGED <<req, session, hasWindow, href, provider, list, details>>

\* the gateway rejects: the catch block of the operation throws
\* new Error(handleApiError(error, default message))
GatewayRejects(e) ==
    /\ call.phase = "awaiting"
    /\ call' = [call EXCEPT !.phase = "thrown", !.err = e,
                            !.msg = handleApiError(e, DefaultMessage(call.op))]
    /\ UNCHANGED <<req, session, hasWindow, href, provider, list, details>>

OpInit ==
    /\ req = [r \in Reqs |-> IdleRequest]
    /\ session = NoSession
    /\ hasWindow = TRUE
    /\ href = StartRoute
    /\ call = IdleCall
    /\ provider = IdleProvider
    /\ list = IdleList
    /\ details = IdleDetails

OpNext ==
    \/ \E op \in Operations : CallOperation(op)
    \/ \E b \in Bodies : GatewayResolves(b)
    \/ \E e \in GatewayErrors : GatewayRejects(e)

\* one call of an exported operation over every body and every error the
\* gateway can hand to it
OpSpec == OpInit /\ [][OpNext]_vars

(* ---------------------------------------------------------------------- *)
(* Exported operations over the gateway                                    *)
(* ---------------------------------------------------------------------- *)

\* the operations that call the instance with the interceptors
GatewayOps == Operations \ {"register", "login"}

\* the error the promise of the gateway rejected with
GatewayError(rec) == ResponseError(rec.sts[rec.res[2]], NoDetail)

\* the bodies a 2xx response is settled with here: null, an array, an object
SettleBodies ==
    {NullBody, ListBody(<<>>), Body("object", <<>>, Absent, Absent, Absent)}

\* the write operation swallows its failure
ThrowsReadsOnly(op, rec) ==
    rec.outcome = "rejected" /\ op \notin {"verifyAuth", "createInteraction"}

\* only failures that carry a response are rethrown
ThrowsOnStatusOnly(op, rec) ==
    /\ rec.outcome = "rejected" /\ op # "verifyAuth"
    /\ rec.sts[rec.res[2]] # NoResponse

\* the catch block of every domain operation throws; the one of verifyAuth
\* returns
Throws(op, rec) == rec.outcome = "rejected" /\ op # "verifyAuth"

\* isAuthenticated is true whatever the verification gave
VerifiedAlways(rec, b) == TRUE

\* verifyAuth's inner try: api.get resolved and response.data.user could be
\* read (response.data is not null)
Verified(rec, b) == rec.outcome = "resolved" /\ b.kind # "null"

\* the awaiting operation resumes with the settled gateway promise
Settle(c, rec, b) ==
    IF Throws(c.op, rec)
    THEN [c EXCEPT !.phase = "thrown", !.err = GatewayError(rec),
                   !.msg = handleApiError(GatewayError(rec),
                                          DefaultMessage(c.op))]
    ELSE IF c.op = "verifyAuth"
    THEN [c EXCEPT !.phase = "returned", !.body = b,
                   !.authed = Verified(rec, b)]
    ELSE [c EXCEPT !.phase = "returned", !.body = b,
                   !.ret = ReturnValue(c.op, b)]

\* a domain operation is called: await api.get / api.post
CallThrough(op) ==
    /\ call.phase = "idle" /\ req[1].pc = "idle"
    /\ call' = [call EXCEPT !.phase = "awaiting", !.op = op]
    /\ req' = [req EXCEPT ![1] = StartOnApi([req[1] EXCEPT !.op = "request"])]
    /\ UNCHANGED <<session, hasWindow, href, provider, list, details>>

\* register / login are called: await axios.post
CallAuth(op) ==
    /\ call.phase = "idle" /\ req[1].pc = "idle"
    /\ call' = [call EXCEPT !.phase = "awaiting", !.op = op]
    /\ req' = [req EXCEPT ![1] = StartOnAxios([req[1] EXCEPT !.op = "login"])]
    /\ UNCHANGED <<session, hasWindow, href, provider, list, details>>

\* verifyAuth is called: await supabase.auth.getSession()
VerifyAuthStart ==
    /\ call.phase = "idle" /\ req[1].pc = "idle"
    /\ call' = [call EXCEPT !.phase = "lookup", !.op = "verifyAuth"]
    /\ UNCHANGED <<req, session, hasWindow, href, provider, list, details>>

\* verifyAuth resumes after its lookup: a throw goes to the outer catch, no
\* session returns at once, a session starts GET /auth/verify
VerifyAuthLookup(res) ==
    /\ call.phase = "lookup"
    /\ IF res = "throws" \/ session = NoSession
       THEN /\ call' = [call EXCEPT
                          !.phase = "returned", !.authed = FALSE,
                          !.look = IF res = "throws" THEN "throws"
                                   ELSE NoSession]
            /\ UNCHANGED req
       ELSE /\ call' = [call EXCEPT !.phase = "awaiting", !.look = session]
            /\ req' = [req EXCEPT
                         ![1] = StartOnApi([req[1] EXCEPT !.op = "request"])]
    /\ UNCHANGED <<session, hasWindow, href, provider, list, details>>

\* the promise the operation awaits has settled
OperationSettles(b) ==
    /\ call.phase = "awaiting" /\ req[1].pc = "done"
    /\ call' = Settle(call, req[1], b)
    /\ UNCHANGED <<req, session, hasWindow, href, provider, list, details>>

\* one call at a time, of every kind: the movie pages over every kind of
\* route identifier, a login, a call on the exported client, every exported
\* operation
CallNext ==
    \/ call.phase = "idle" /\ \E id \in SampleIds : LoadMoviePage(1, id)
    \/ call.phase = "idle" /\ \E id \in SampleIds : LoadCheckedMoviePage(1, id)
    \/ call.phase = "idle" /\ Login(1)
    \/ call.phase = "idle" /\ \E m \in BOOLEAN : ApiRequest(1, m)
    \/ \E op \in GatewayOps : CallThrough(op)
    \/ \E op \in Operations \ GatewayOps : CallAuth(op)
    \/ VerifyAuthStart
    \/ \E res \in GetSessionResults : VerifyAuthLookup(res)
    \/ \E b \in SettleBodies : OperationSettles(b)
    \/ Progress(1)

CallSpec == Init /\ [][CallNext]_vars

(* ---------------------------------------------------------------------- *)
(* AuthProvider (backend-verifying)                                        *)
(* ---------------------------------------------------------------------- *)

Remove(seq, i) == SubSeq(seq, 1, i - 1) \o SubSeq(seq, i + 1, Len(seq))

\* checkAuthStatus up to its await: without a user it settles the flags at
\* once, with one it suspends in verifyAuth()
checkAuthStatus(p) ==
    IF ~p.user
    THEN [p EXCEPT !.isAuthenticated = FALSE, !.isLoading = FALSE]
    ELSE [p EXCEPT !.checks = Append(@, "lookup")]

\* the provider mounts with or without a user; the effect runs
ProviderMount(u) ==
    /\ ~provider.mounted
    /\ provider' = checkAuthStatus([provider EXCEPT !.mounted = TRUE,
                                                    !.user = u])
    /\ UNCHANGED <<req, session, hasWindow, href, call, list, details>>

\* login(): signInWithPassword succeeded, useUser() changes, the effect runs
SignIn ==
    /\ provider.mounted /\ ~provider.user
    /\ Len(provider.checks) < MaxChecks
    /\ provider' = checkAuthStatus([provider EXCEPT !.user = TRUE,
                                                    !.error = FALSE])
    /\ UNCHANGED <<req, session, hasWindow, href, call, list, details>>

\* checkAuthStatus resumes after await verifyAuth()
AfterVerify(p, i, result) ==
    [p EXCEPT !.checks = Remove(@, i), !.isAuthenticated = result,
              !.isLoading = FALSE]

\* verifyAuth of the i-th suspended check resumes after getSession: with the
\* session it goes on to GET /auth/verify, without one (or when the lookup
\* throws) it returns isAuthenticated false
CheckLookup(i, res) ==
    /\ i \in 1..Len(provider.checks) /\ provider.checks[i] = "lookup"
    /\ provider' = IF res = "ok" /\ provider.user
                   THEN [provider EXCEPT !.checks[i] = "verify"]
                   ELSE AfterVerify(provider, i, FALSE)
    /\ UNCHANGED <<req, session, hasWindow, href, call, list, details>>

\* GET /auth/verify of the i-th suspended check is answered
CheckCompletes(i, result) ==
    /\ i \in 1..Len(provider.checks) /\ provider.checks[i] = "verify"
    /\ provider' = AfterVerify(provider, i, result)
    /\ UNCHANGED <<req, session, hasWindow, href, call, list, details>>

\* logout() is called and suspends in await signOut()
LogoutStart ==
    /\ provider.mounted /\ provider.user /\ ~provider.logout
    /\ provider' = [provider EXCEPT !.logout = TRUE]
    /\ UNCHANGED <<req, session, hasWindow, href, call, list, details>>

SignOutResults == {"ok", "error", "throws"}

\* logout() after await signOut()
AfterSignOut(p, res) ==
    IF res = "throws"
    THEN [p EXCEPT !.logout = FALSE, !.error = TRUE]
    ELSE [p EXCEPT !.logout = FALSE, !.isAuthenticated = FALSE,
                   !.route = LoginRoute]

\* signOut settles: when it signed out, useUser() becomes null and the
\* effect runs checkAuthStatus; then logout() resumes
SignOutDone(res) ==
    /\ provider.logout
    /\ provider' =
          IF res = "ok"
          THEN AfterSignOut(checkAuthStatus([provider EXCEPT !.user = FALSE]),
                            res)
          ELSE AfterSignOut(provider, res)
    /\ UNCHANGED <<req, session, hasWindow, href, call, list, details>>

AuthNext ==
    \/ \E u \in BOOLEAN : ProviderMount(u)
    \/ SignIn
    \/ \E i \in 1..MaxChecks, res \in GetSessionResults : CheckLookup(i, res)
    \/ \E i \in 1..MaxChecks, result \in BOOLEAN : CheckCompletes(i, result)
    \/ LogoutStart
    \/ \E res \in SignOutResults : SignOutDone(res)

\* the provider under sign-ins, logouts and verifications that complete in
\* any order
AuthSpec == OpInit /\ [][AuthNext]_vars

(* ---------------------------------------------------------------------- *)
(* Movies list page                                                        *)
(* ---------------------------------------------------------------------- *)

\* what getMovies(page) gives the page: an array of n movies, something
\* that is not an array, or it throws
FetchResults ==
    {<<"list", n>> : n \in 0..MaxList} \cup {<<"invalid", 0>>, <<"throws", 0>>}

\* fetchMovies up to its await, run by the effect for page p
fetchMovies(l, p) ==
    [l EXCEPT !.loading = TRUE, !.error = "none",
              !.inflight = Append(@, p), !.fetches = @ + 1]

\* the page mounts: the effect runs for page 1
ListMount ==
    /\ ~list.mounted
    /\ list' = fetchMovies([list EXCEPT !.mounted = TRUE], list.page)
    /\ UNCHANGED <<req, session, hasWindow, href, call, provider, details>>

\* fetchMovies after await getMovies(page), for the closure started for page p
AfterFetch(l, p, result) ==
    LET settled ==
            IF result[1] = "throws" THEN [l EXCEPT !.error = "fetch"]
            ELSE IF result[1] = "invalid" THEN [l EXCEPT !.error = "format"]
            ELSE IF result[2] = 0 THEN [l EXCEPT !.hasMore = FALSE]
            ELSE [l EXCEPT !.movies = IF p = 1 THEN result[2]
                                      ELSE @ + result[2]]
    IN  [settled EXCEPT !.loading = FALSE]

\* the i-th running getMovies call settles
FetchReturns(i, result) ==
    /\ i \in 1..Len(list.inflight)
    /\ list' = AfterFetch([list EXCEPT !.inflight = Remove(@, i)],
                          list.inflight[i], result)
    /\ UNCHANGED <<req, session, hasWindow, href, call, provider, details>>

\* loadMore: setPage(prevPage + 1), the effect runs for the new page
LoadMore ==
    /\ list.mounted /\ ~list.loading /\ list.hasMore
    /\ list.page < MaxPage /\ list.fetches < MaxFetches
    /\ list' = fetchMovies([list EXCEPT !.page = @ + 1], list.page + 1)
    /\ UNCHANGED <<req, session, hasWindow, href, call, provider, details>>

\* the effect ran although page did not change
TryAgainRefetchesAlways(l) ==
    fetchMovies([l EXCEPT !.page = 1, !.retryAfter = l.error,
                          !.retry = "refetch"], 1)

\* onClick of 'Try Again': setError(null); setPage(1); the effect depends on
\* [page] and runs only when page changed
TryAgain(l) ==
    LET cleared == [l EXCEPT !.error = "none", !.page = 1,
                             !.retryAfter = l.error]
    IN  IF l.page # 1
        THEN fetchMovies([cleared EXCEPT !.retry = "refetch"], 1)
        ELSE [cleared EXCEPT !.retry = "stalled"]

\* the button of the error banner is pressed
PressTryAgain ==
    /\ list.mounted /\ list.error # "none"
    /\ list.fetches < MaxFetches
    /\ list' = TryAgain(list)
    /\ UNCHANGED <<req, session, hasWindow, href, call, provider, details>>

\* handleMovieClick on a card whose id is not 24 characters long
ClickMalformed ==
    /\ list.mounted /\ list.movies > 0
    /\ list' = [list EXCEPT !.error = "click"]
    /\ UNCHANGED <<req, session, hasWindow, href, call, provider, details>>

ListNext ==
    \/ ListMount
    \/ \E i \in 1..MaxFetches, result \in FetchResults : FetchReturns(i, result)
    \/ LoadMore
    \/ PressTryAgain
    \/ ClickMalformed

\* the movies list under loads, failures and presses of its buttons
ListSpec == OpInit /\ [][ListNext]_vars

(* ---------------------------------------------------------------------- *)
(* Movie details page                                                      *)
(* ---------------------------------------------------------------------- *)

FlagTypes == {"rate", "favorite", "watchlist"}

\* the handlers call the backend for anyone and any id
CanInteractAnyone(d) == TRUE

\* if (!user || !validMovieId) return
CanInteract(d) == d.user /\ isValidObjectId(d.id)

\* await createInteraction(user.id, validMovieId, type, value)
SendInteraction(d, type, saw) ==
    [d EXCEPT !.pending = Append(@, [type |-> type, saw |-> saw]),
              !.sent = @ + 1,
              !.unguarded = IF d.user /\ isValidObjectId(d.id) THEN @
                            ELSE @ + 1]

\* the logView effect: a 'view' interaction once user, movie and valid id
\* are all there
logView(d) ==
    IF d.user /\ d.movie /\ isValidObjectId(d.id)
    THEN SendInteraction(d, "view", FALSE)
    ELSE d

\* the page opens for a route id, with or without a signed-in user
OpenDetails(u, id) ==
    /\ ~details.open
    /\ details' = [details EXCEPT !.open = TRUE, !.user = u, !.id = id]
    /\ UNCHANGED <<req, session, hasWindow, href, call, provider, list>>

\* getMovie resolved (it is called for a valid id only); the effect runs
MovieLoads ==
    /\ details.open /\ ~details.movie /\ isValidObjectId(details.id)
    /\ details' = logView([details EXCEPT !.movie = TRUE])
    /\ UNCHANGED <<req, session, hasWindow, href, call, provider, list>>

\* useUser() changes while the page is open; the effect runs
DetailsUserChanges ==
    /\ details.open /\ details.sent < MaxInteractions
    /\ details' = logView([details EXCEPT !.user = ~@])
    /\ UNCHANGED <<req, session, hasWindow, href, call, provider, list>>

\* the value of the flag the handler of this type closes over
FlagOf(d, type) ==
    CASE type = "rate" -> d.rated
      [] type = "favorite" -> d.favorite
      [] type = "watchlist" -> d.watchlist

\* handleRating / toggleFavorite / toggleWatchlist up to the await
Click(type) ==
    /\ details.open /\ details.sent < MaxInteractions
    /\ details' = IF CanInteract(details)
                  THEN SendInteraction(details, type, FlagOf(details, type))
                  ELSE details
    /\ UNCHANGED <<req, session, hasWindow, href, call, provider, list>>

\* the handler after its await: setRated(true) / setFavorite(!favorite) /
\* setWatchlist(!watchlist) when the call returned, only a log when it threw
AfterInteraction(d, p, ok) ==
    IF ~ok \/ p.type = "view" THEN d
    ELSE LET counted == [d EXCEPT !.changed[p.type] = @ + 1,
                                  !.succeeded[p.type] = @ + 1]
         IN  CASE p.type = "rate" -> [counted EXCEPT !.rated = TRUE]
               [] p.type = "favorite" -> [counted EXCEPT !.favorite = ~p.saw]
               [] p.type = "watchlist" -> [counted EXCEPT !.watchlist = ~p.saw]

\* the i-th awaited createInteraction call returns or throws
InteractionSettles(i, ok) ==
    /\ i \in 1..Len(details.pending)
    /\ details' = AfterInteraction([details EXCEPT !.pending = Remove(@, i)],
                                   details.pending[i], ok)
    /\ UNCHANGED <<req, session, hasWindow, href, call, provider, list>>

DetailsNext ==
    \/ \E u \in BOOLEAN, id \in SampleIds : OpenDetails(u, id)
    \/ MovieLoads
    \/ DetailsUserChanges
    \/ \E type \in FlagTypes : Click(type)
    \/ \E i \in 1..MaxInteractions, ok \in BOOLEAN : InteractionSettles(i, ok)

\* the details page under clicks on its three controls and interaction
\* calls that settle in any order
DetailsSpec == OpInit /\ [][DetailsNext]_vars

(* ---------------------------------------------------------------------- *)
(* Properties                                                              *)
(* ---------------------------------------------------------------------- *)

\* the call was made on the gateway instance (not on bare axios)
ThroughGateway(rec) == rec.op \in {"getMovie", "request"}

\* the first send of the request was answered with a 401
Got401(rec) == Len(rec.sts) >= 1 /\ rec.sts[1] = 401

\* the re-sent request has been answered
RetryAnswered(rec) == Len(rec.sts) >= 2

\* a re-sent request is on the wire
RetryInFlight(rec) == rec.pc = "sent" /\ rec.retries >= 1

\* C1: every request made through the gateway that receives a 401 causes
\* exactly one refreshSession call and at most one re-send; when the re-sent
\* request receives a 401 too, there is no second refreshSession call and no
\* second re-send.
OneRefreshOneRetry ==
    \A r \in Reqs :
        LET rec == req[r] IN
        /\ ThroughGateway(rec) /\ Got401(rec) =>
              rec.refreshes = 1 /\ rec.retries <= 1
        /\ ThroughGateway(rec) /\ RetryAnswered(rec) /\ rec.sts[2] = 401 =>
              rec.refreshes = 1 /\ rec.retries = 1 /\ rec.sends = 2
              /\ rec.pc = "done"

SecondUnauthorizedReached ==
    \E r \in Reqs : ThroughGateway(req[r]) /\ req[r].sts = <<401, 401>>

\* C2: when a request receives a 401, the refresh succeeds and the re-sent
\* request is answered with a 2xx, the caller gets the body of the re-sent
\* request's response and no error.
RetriedBodyReturned ==
    \A r \in Reqs :
        LET rec == req[r] IN
        (/\ ThroughGateway(rec) /\ Got401(rec) /\ rec.refresh = "ok"
         /\ RetryAnswered(rec) /\ IsSuccess(rec.sts[2]))
        => rec.outcome = "resolved" /\ rec.res = <<"data", 2>>

RetriedSuccessReached ==
    \E r \in Reqs :
        /\ ThroughGateway(req[r]) /\ req[r].refresh = "ok"
        /\ req[r].sts = <<401, 200>>

\* C3: when a request receives a 401 and the refresh fails (an error is
\* returned, no session is returned, or refreshSession throws), the caller
\* gets the error of the original 401, nothing is re-sent, and the page
\* navigates to '/login' when there is a window.
RefreshFailurePropagates ==
    \A r \in Reqs :
        LET rec == req[r] IN
        (ThroughGateway(rec) /\ rec.refresh \in {"error", "nosession", "throws"})
        => /\ rec.pc = "done" /\ rec.outcome = "rejected"
           /\ rec.res = <<"error", 1>>
           /\ rec.retries = 0 /\ rec.sends = 1
           /\ rec.nav = hasWindow
           /\ (hasWindow => href = LoginRoute)

RefreshFailureReached ==
    \E r \in Reqs :
        /\ ThroughGateway(req[r]) /\ req[r].refresh = "nosession"
        /\ req[r].nav /\ href = LoginRoute

\* the session lookup of the request interceptor returned a session with a
\* non-empty access token
LookedUpToken(rec) ==
    rec.look \notin {"pending", "throws"} /\ HasAccessToken(rec.look)

\* C4 (as stated): every request on the wire while the auth provider holds a
\* session with a non-empty access token carries a non-empty bearer header.
BearerWheneverSessionExists ==
    (req[1].pc = "sent" /\ HasAccessToken(session)) => IsBearer(req[1].auth)

\* C4 (amended): a request made through the gateway whose session lookup
\* returned a non-empty access token is on the wire with 'Bearer <token>'
\* (the looked-up token on the first send, the refreshed one on the re-send);
\* login and register are on the wire without an Authorization header.
BearerWhenLookupGaveToken ==
    \A r \in Reqs :
        LET rec == req[r] IN
        rec.pc = "sent" =>
            /\ ThroughGateway(rec) /\ LookedUpToken(rec) =>
                  /\ IsBearer(rec.auth)
                  /\ rec.auth = IF rec.retries = 0 THEN Bearer(rec.look)
                                ELSE Bearer(RefreshedToken)
            /\ rec.op = "login" => rec.auth = NoHeader

BearerOnWireReached ==
    \E r \in Reqs :
        /\ req[r].pc = "sent" /\ req[r].op = "getMovie"
        /\ req[r].look = "t1" /\ req[r].auth = "Bearer t1"

\* the lookup of the request interceptor ended without a credential
LookupGaveNothing(rec) == rec.look \in {NoSession, "", "throws"}

\* C5: request preparation never fails a request: when the session lookup
\* gives no credential or throws, the request is still sent, without an
\* Authorization header, and no error comes out of the preparation.
PreparationNeverFails ==
    \A r \in Reqs :
        LET rec == req[r] IN
        (ThroughGateway(rec) /\ LookupGaveNothing(rec)) =>
            /\ rec.sends = 0 =>
                  /\ rec.pc = "ready" /\ rec.outcome = "pending"
                  /\ ENABLED Dispatch(r)
            /\ rec.refresh # "ok" => rec.auth = NoHeader

ThrowingLookupSent ==
    \E r \in Reqs :
        /\ req[r].look = "throws" /\ req[r].pc = "sent"
        /\ req[r].sends = 1 /\ req[r].auth = NoHeader

\* C6: for an identifier that does not match ^[0-9a-fA-F]{24}$ the movie
\* lookup fails with a local invalid-identifier error and nothing is sent.
MalformedIdNeverSent ==
    (req[1].op = "getMovie" /\ ~isValidObjectId(req[1].id)) =>
        /\ req[1].sends = 0
        /\ req[1].pc = "done" => req[1].outcome = "invalid"

\* C7: when the re-sent request receives a 401 too, the error reaches the
\* caller and the page navigates to the login route (when there is a
\* window).
SecondUnauthorizedRedirects ==
    \A r \in Reqs :
        LET rec == req[r] IN
        (ThroughGateway(rec) /\ RetryAnswered(rec) /\ rec.sts[2] = 401) =>
            /\ rec.outcome = "rejected"
            /\ hasWindow => rec.nav /\ href = LoginRoute

RetryCarriesMark ==
    \A r \in Reqs : RetryInFlight(req[r]) => req[r].mark

\* C9 (amended): the recovery flow never sets _retry (the descriptor keeps
\* the value its caller gave it); whenever a re-sent request is on the wire
\* it is on the bare client, outside the interceptors, after a refresh that
\* succeeded, with the refreshed token as its bearer header.
RetryBypassesInterceptors ==
    \A r \in Reqs :
        LET rec == req[r] IN
        /\ rec.op # "request" => ~rec.mark
        /\ RetryInFlight(rec) =>
              /\ rec.via = "axios" /\ rec.refresh = "ok"
              /\ rec.auth = Bearer(RefreshedToken)

UnmarkedRetryInFlight ==
    \E r \in Reqs : RetryInFlight(req[r]) /\ ~req[r].mark

\* C10: within one request the session lookup is complete before the
\* request is sent, and on a 401 refreshSession is complete before the
\* request is re-sent, under every interleaving with other requests.
PrecededBy(tr, i, ev) == i > 1 /\ tr[i - 1] = ev

StepsInOrder ==
    \A r \in Reqs :
        LET rec == req[r]
            tr  == rec.trace
        IN  /\ \A i \in 1..Len(tr) :
                 /\ tr[i] = "send" =>
                       \/ rec.op = "login" /\ i = 1
                       \/ PrecededBy(tr, i, "lookupDone")
                       \/ PrecededBy(tr, i, "retry")
                 /\ tr[i] = "lookupDone" => PrecededBy(tr, i, "lookupStart")
                 /\ tr[i] = "retry" => PrecededBy(tr, i, "refreshDone")
                 /\ tr[i] = "refreshDone" => PrecededBy(tr, i, "refreshStart")
            /\ rec.pc = "lookup" => rec.sends = 0
            /\ rec.pc = "refreshing" => rec.retries = 0
            /\ rec.retries >= 1 => rec.refresh = "ok"

FullRecoveryTraced ==
    \E r \in Reqs :
        /\ req[r].trace = <<"lookupStart", "lookupDone", "send",
                            "refreshStart", "refreshDone", "retry", "send">>
        /\ \E q \in Reqs : q # r /\ req[q].pc = "lookup"

\* the Authorization header of the first send
FirstHeader(rec) ==
    IF LookedUpToken(rec) THEN Bearer(rec.look) ELSE NoHeader

\* C11: the request re-sent after a successful refresh carries the access
\* token the refresh returned as its bearer credential, never the header of
\* the first, rejected send.
RetryCarriesRefreshedToken ==
    LET rec == req[1] IN
    rec.retries >= 1 =>
        /\ rec.auth = Bearer(session) /\ IsBearer(rec.auth)
        /\ rec.auth # FirstHeader(rec)

RetryReheadedReached ==
    /\ req[1].retries = 1 /\ req[1].look = "t1"
    /\ req[1].auth = "Bearer t2"

\* C12: the gateway never navigates to the login route when there is no
\* window (server rendering), on any error path.
NoRedirectWithoutWindow ==
    /\ \A r \in Reqs : req[r].nav => hasWindow
    /\ ~hasWindow => href = StartRoute

RefreshFailedOnServer ==
    \E r \in Reqs :
        /\ ~hasWindow /\ req[r].pc = "done"
        /\ req[r].refresh \in {"error", "throws"}

\* C13 (as stated): a 403 while no session exists sends the page to the
\* login route.
ForbiddenRedirectsWithoutSession ==
    \A r \in Reqs :
        (/\ ThroughGateway(req[r]) /\ req[r].sts = <<403>>
         /\ session = NoSession /\ hasWindow)
        => req[r].nav

\* C13 (amended): a 403 causes no refresh and no re-send, the error reaches
\* the caller, and the page is not sent to the login route, whether a
\* session exists or not.
ForbiddenOnlyPropagates ==
    \A r \in Reqs :
        LET rec == req[r] IN
        (ThroughGateway(rec) /\ Len(rec.sts) >= 1 /\ rec.sts[1] = 403) =>
            /\ rec.pc = "done" /\ rec.outcome = "rejected"
            /\ rec.res = <<"error", 1>>
            /\ rec.refreshes = 0 /\ rec.retries = 0 /\ rec.sends = 1
            /\ ~rec.nav

ForbiddenWithoutSessionReached ==
    \E r \in Reqs :
        /\ ThroughGateway(req[r]) /\ req[r].sts = <<403>>
        /\ session = NoSession /\ hasWindow /\ req[r].look = NoSession

\* C14: when nothing was received, the caller gets a network-unreachable
\* error it can tell from every error with a status and from the default
\* error of the operation.
NetworkErrorDistinguished ==
    (call.phase = "thrown" /\ call.err = NetworkError) =>
        /\ call.msg # DefaultMessage(call.op)
        /\ \A e \in GatewayErrors \ {NetworkError} :
              call.msg # handleApiError(e, DefaultMessage(call.op))

\* C15: a 404 for a movie lookup reaches the caller as an error with the
\* message "Movie not found".
NotFoundSaysMovieNotFound ==
    (/\ call.phase = "thrown" /\ call.op = "getMovie"
     /\ call.err.status = 404)
    => call.msg = "Movie not found"

\* C16: a 404 causes no refresh, no re-send and no navigation; the error
\* reaches the caller after exactly one send.
NotFoundOnlyPropagates ==
    \A r \in Reqs :
        LET rec == req[r] IN
        (ThroughGateway(rec) /\ Len(rec.sts) >= 1 /\ rec.sts[1] = 404) =>
            /\ rec.pc = "done" /\ rec.outcome = "rejected"
            /\ rec.res = <<"error", 1>>
            /\ rec.refreshes = 0 /\ rec.retries = 0 /\ rec.sends = 1
            /\ ~rec.nav /\ rec.refresh = "none"

NotFoundInBrowserReached ==
    \E r \in Reqs :
        /\ ThroughGateway(req[r]) /\ req[r].sts = <<404>> /\ hasWindow
        /\ req[r].pc = "done"

ListOps == {"getMovies", "searchMovies", "getSimilarMovies",
            "getPopularMovies", "getUserRecommendations"}

\* C17: every list-returning read operation returns a list for every
\* successful response, whatever the shape of the payload.
ListOpsReturnLists ==
    (call.phase = "returned" /\ call.op \in ListOps) => call.ret.kind = "list"

\* C18: the first matching list is extracted in a fixed order
\* (getSimilarMovies: the payload, similar_items, movies; getPopularMovies
\* and getUserRecommendations: the payload, recommendations), and an empty
\* list is returned, not an error, when nothing matches, a null payload
\* included.
FirstKnownListExtracted ==
    LET b == call.body
        isObject == b.kind = "object"
    IN
    /\ (call.phase = "returned" /\ call.op = "getSimilarMovies") =>
          /\ call.ret.kind = "list"
          /\ b.kind = "list" => call.ret.items = b.items
          /\ isObject /\ IsArray(b.similar_items) =>
                call.ret.items = b.similar_items.items
          /\ isObject /\ ~IsArray(b.similar_items) /\ IsArray(b.movies) =>
                call.ret.items = b.movies.items
          /\ (\/ b.kind \in {"null", "scalar", "falsy"}
              \/ isObject /\ ~IsArray(b.similar_items) /\ ~IsArray(b.movies))
             => call.ret.items = <<>>
    /\ (call.phase = "returned" /\ call.op \in RecommendationOps) =>
          /\ call.ret.kind = "list"
          /\ b.kind = "list" => call.ret.items = b.items
          /\ isObject /\ IsArray(b.recommendations) =>
                call.ret.items = b.recommendations.items
          /\ (\/ b.kind \in {"null", "scalar", "falsy"}
              \/ isObject /\ ~IsArray(b.recommendations))
             => call.ret.items = <<>>
    /\ (call.phase = "awaiting" /\ call.op \in RecommendationOps
                                        \cup {"getSimilarMovies"}) =>
          \A body \in Bodies : ENABLED GatewayResolves(body)

SimilarItemsBeforeMovies ==
    /\ call.phase = "returned" /\ call.op = "getSimilarMovies"
    /\ call.body.similar_items = ArrayOf(<<"m1">>)
    /\ call.body.movies = ArrayOf(<<"m2">>)
    /\ call.ret = ListBody(<<"m1">>)

\* {recommendations: l}
Wrapped(l) == Body("object", <<>>, Absent, Absent, ArrayOf(l))

\* C19: for every list L the operation returns the same list for the bare
\* payload L and for the payload {recommendations: L}.
BareAndWrappedAgree ==
    (call.phase = "returned" /\ call.op \in RecommendationOps) =>
        /\ call.body.kind = "list" =>
              /\ call.ret = ExtractRecommendations(Wrapped(call.body.items))
              /\ call.ret.items = call.body.items
        /\ call.body \in {Wrapped(l) : l \in Lists} =>
              /\ call.ret
                   = ExtractRecommendations(
                        ListBody(call.body.recommendations.items))
              /\ call.ret.items = call.body.recommendations.items

WrappedListReturned ==
    /\ call.phase = "returned" /\ call.op = "getPopularMovies"
    /\ call.body = Wrapped(<<"m1", "m2">>)
    /\ call.ret = ListBody(<<"m1", "m2">>)

KeyedStatuses == {400, 401, 403, 404, 500}

\* C20: the message of the error thrown to the caller is the detail of the
\* error response whenever it has one, whatever the status; else the
\* message of the status for 400, 401, 403, 404 and 500; else the default
\* message of the operation.
DetailThenStatusThenDefault ==
    call.phase = "thrown" =>
        LET e == call.err
            hasDetail == e.status # NoResponse /\ e.detail \notin {NoDetail, ""}
        IN  /\ hasDetail => call.msg = e.detail
            /\ ~hasDetail /\ e.status \in KeyedStatuses =>
                  /\ call.msg = StatusMessage(e.status, "")
                  /\ call.msg # DefaultMessage(call.op)
                  /\ call.msg # ""
            /\ ~hasDetail /\ e.status \notin KeyedStatuses =>
                  call.msg = DefaultMessage(call.op)

DetailOverridesStatus ==
    /\ call.phase = "thrown" /\ call.err = ResponseError(404, "Custom detail")
    /\ call.msg = "Custom detail"

ServerErrorMessage == "Server error. Please try again later."

\* C21 (as stated): every failure with a status from 500 to 599 and no
\* backend detail is thrown with the server-error message, not with the
\* default message of the operation.
ServerErrorsSayServerError ==
    (/\ call.phase = "thrown"
     /\ call.err.status >= 500 /\ call.err.status <= 599
     /\ ~HasDetail(call.err))
    => call.msg = ServerErrorMessage

\* the operation has resumed from its await on the gateway
Settled(c) == c.phase \in {"returned", "thrown"} /\ req[1].pc = "done"

\* the status of the response the gateway promise settled with
FinalStatus(rec) == rec.sts[rec.res[2]]

\* C22: createInteraction never returns normally when its backend call
\* failed: after any error status, a network failure or a failed re-send it
\* throws an error with the normalized message, and when it returns the call
\* was answered with a 2xx.
CreateInteractionRethrows ==
    call.op = "createInteraction" /\ Settled(call) =>
        /\ req[1].outcome = "rejected" =>
              /\ call.phase = "thrown"
              /\ call.msg = handleApiError(GatewayError(req[1]),
                                           "Failed to record your interaction")
        /\ call.phase = "returned" =>
              req[1].outcome = "resolved" /\ IsSuccess(FinalStatus(req[1]))

InteractionRetryFailureThrown ==
    /\ call.op = "createInteraction" /\ call.phase = "thrown"
    /\ req[1].sts = <<401, 500>>

\* C23 (as stated): for every exported operation, a failure of the gateway
\* call (error status, network failure, failed refresh) comes out as a
\* thrown error, never as a normal result.
EveryFailureSurfaced ==
    Settled(call) /\ req[1].outcome = "rejected" => call.phase = "thrown"

\* C23 (amended): a throwing session lookup in the request interceptor does
\* not fail the operation; every other failure of the gateway call is thrown
\* by every domain operation, and verifyAuth returns normally with
\* isAuthenticated false for it.
FailuresSurfacedExceptVerification ==
    Settled(call) =>
        /\ req[1].outcome = "rejected" /\ call.op \in Operations =>
              call.phase = "thrown"
        /\ req[1].outcome = "rejected" /\ call.op = "verifyAuth" =>
              call.phase = "returned" /\ ~call.authed
        /\ req[1].look = "throws" /\ req[1].outcome = "resolved" =>
              call.phase = "returned"

VerificationFailureReturned ==
    /\ call.op = "verifyAuth" /\ call.phase = "returned"
    /\ req[1].outcome = "rejected" /\ req[1].sts = <<500>>

\* C30: verifyAuth never throws; without a session, or when its session
\* lookup throws, it returns isAuthenticated false and sends nothing; when
\* the verification request fails it returns isAuthenticated false; it
\* returns isAuthenticated true only when a session was there and
\* GET /auth/verify was answered with a 2xx.
VerifyAuthNeverRejects ==
    call.op = "verifyAuth" =>
        /\ call.phase # "thrown"
        /\ call.look \in {NoSession, "throws"} =>
              /\ call.phase = "returned" /\ ~call.authed
              /\ req[1].pc = "idle" /\ req[1].sends = 0
        /\ Settled(call) /\ req[1].outcome = "rejected" => ~call.authed
        /\ call.authed =>
              /\ call.phase = "returned"
              /\ call.look \notin {"pending", "throws", NoSession}
              /\ req[1].outcome = "resolved"
              /\ IsSuccess(FinalStatus(req[1]))

VerifyWithoutSessionReturned ==
    /\ call.op = "verifyAuth" /\ call.phase = "returned"
    /\ call.look = NoSession /\ req[1].sends = 0

RECURSIVE RefreshesUpTo(_)
\* refreshSession calls made for the requests 1..n
RefreshesUpTo(n) ==
    IF n = 0 THEN 0 ELSE req[n].refreshes + RefreshesUpTo(n - 1)

\* the requests made through the gateway whose first send got a 401
Unauthorized == {r \in Reqs : ThroughGateway(req[r]) /\ Got401(req[r])}

\* C24: whatever the interleaving of the concurrent requests, the number of
\* refreshSession calls is at most the number of original requests that got
\* a 401: each of them causes one refresh, and a re-sent request that gets a
\* 401 causes none.
RefreshesBoundedByUnauthorized ==
    /\ RefreshesUpTo(NumReqs) <= Cardinality(Unauthorized)
    /\ \A r \in Reqs :
          /\ r \in Unauthorized => req[r].refreshes = 1
          /\ req[r].retries >= 1 /\ RetryAnswered(req[r]) =>
                req[r].refreshes = 1 /\ req[r].pc = "done"

ConcurrentRefreshesReached ==
    /\ RefreshesUpTo(NumReqs) = 2
    /\ req[1].sts = <<401, 401>>
    /\ req[2].pc = "refreshing"

\* the path on which the response interceptor gives a result for a failed
\* response: 401, refresh succeeded, re-sent request answered with a 2xx
RecoveredByRetry(rec) ==
    /\ rec.sts[1] = 401 /\ rec.refresh = "ok" /\ rec.cfg
    /\ Len(rec.sts) = 2 /\ IsSuccess(rec.sts[2])

\* C25: the response interceptor resolves a failed response only on the
\* path 401, refresh succeeded, re-sent request succeeded; on every other
\* path its promise rejects with an error, and when it resolves it resolves
\* with the response of the re-sent request, never without a value.
InterceptorResolvesOnlyAfterRetry ==
    \A r \in Reqs :
        LET rec == req[r] IN
        (/\ ThroughGateway(rec) /\ rec.pc = "done" /\ Len(rec.sts) >= 1
         /\ ~IsSuccess(rec.sts[1]))
        => /\ rec.outcome \in {"resolved", "rejected"}
           /\ rec.outcome = "resolved" <=> RecoveredByRetry(rec)
           /\ rec.outcome = "resolved" => rec.res = <<"data", 2>>
           /\ rec.outcome = "rejected" => rec.res[1] = "error"

RefreshExceptionRejected ==
    \E r \in Reqs :
        /\ ThroughGateway(req[r]) /\ req[r].refresh = "throws"
        /\ req[r].outcome = "rejected"

\* C26: when a 401 is received, the refresh succeeds and the failed request
\* has no usable descriptor, nothing is re-sent, the caller gets the error of
\* the 401 and the page does not navigate to '/login'.
MissingDescriptorRejects ==
    LET rec == req[1] IN
    (ThroughGateway(rec) /\ Got401(rec) /\ rec.refresh = "ok" /\ ~rec.cfg)
    => /\ rec.pc = "done" /\ rec.outcome = "rejected"
       /\ rec.res = <<"error", 1>>
       /\ rec.retries = 0 /\ rec.sends = 1
       /\ ~rec.nav /\ href = StartRoute

MissingDescriptorReached ==
    /\ req[1].op = "getMovie" /\ req[1].sts = <<401>>
    /\ req[1].refresh = "ok" /\ ~req[1].cfg /\ hasWindow

\* C27 (as stated): in the AuthProvider, once no verification and no logout
\* is in flight, isAuthenticated is true only if a user is present.
AuthenticatedOnlyWithUser ==
    (provider.checks = <<>> /\ ~provider.logout)
    => (provider.isAuthenticated => provider.user)

\* C28 (as stated): in the movies list, after a fetch has failed and the
\* error banner is shown, a press of 'Try Again' starts a new getMovies
\* fetch, whatever the page at which the failure occurred.
TryAgainStartsFetch ==
    list.retryAfter = "fetch" => list.retry = "refetch"

\* C29: on the movie details page the favorite, watchlist and rated flags
\* are assigned only after the createInteraction call of their own type
\* returned; a call that threw assigns nothing, and without a signed-in user
\* or with an invalid movie id no interaction request is sent and the flags
\* stay as they are.
FlagsFollowSuccess ==
    /\ \A k \in FlagTypes : details.changed[k] = details.succeeded[k]
    /\ details.rated => details.succeeded["rate"] >= 1
    /\ details.favorite => details.succeeded["favorite"] >= 1
    /\ details.watchlist => details.succeeded["watchlist"] >= 1
    /\ details.unguarded = 0
    /\ ~isValidObjectId(details.id) =>
          /\ details.sent = 0 /\ details.pending = <<>>
          /\ ~details.rated /\ ~details.favorite /\ ~details.watchlist

FavoriteSetAfterFailure ==
    /\ details.favorite /\ details.succeeded["favorite"] = 1
    /\ details.sent = 2 /\ details.pending = <<>> /\ ~details.rated
    /\ ~details.watchlist /\ ~details.movie

====
